---- MODULE Spec2Model ----
(***************************************************************************)
(* Model of the three contracts of the repository:                         *)
(*   contracts/loan            collateralised peer-to-peer loans with an   *)
(*                             installment schedule, repayment matching,   *)
(*                             default detection and liquidation;          *)
(*   contracts/escrow          escrow of a payment until delivery is       *)
(*                             confirmed, with dispute and refund;         *)
(*   contracts/credit-scoring  credit profiles, their score and the        *)
(*                             transaction limits derived from it.         *)
(* Each contract has its own storage and its own specification (Spec,      *)
(* WideSpec for the loan contract, EscrowSpec, CreditSpec); a contract     *)
(* never touches the storage of another one.                               *)
(*                                                                         *)
(* Every public entry point is one atomic action.  A panic anywhere in an  *)
(* entry point aborts the invocation: the host discards every storage      *)
(* write and every token transfer the invocation made, so the action then  *)
(* leaves the ledger as it was and only records the failure in `last`.     *)
(* The panic messages of the code are named by the error kinds of the      *)
(* specification:                                                          *)
(*   require_auth failure / "Only borrower can make repayments" /          *)
(*   "Only lender can liquidate"          -> Unauthorized                  *)
(*   "Loan not found"                     -> LoanNotFound                  *)
(*   "Loan is not active"                 -> LoanNotActive                 *)
(*   "Invalid repayment amount"           -> InvalidRepayment              *)
(*   "No payments are overdue"            -> NoDefault                     *)
(*   a token transfer that traps          -> TransferFailed                *)
(*   integer division by zero             -> ArithmeticFault               *)
(*                                                                         *)
(* Amounts are i128 and times u64 in the code; the values explored here    *)
(* are far from those limits, so no sum or product wraps or traps and the  *)
(* model computes on unbounded integers.  One token contract serves as     *)
(* collateral asset and as the asset principal and repayments are paid in  *)
(* (create_loan builds both clients from terms.collateral_asset).          *)
(***************************************************************************)
EXTENDS Integers, Sequences, FiniteSets, TLC

\* ---------------------------------------------------------------- bounds
MaxLoans == 2
MaxTime == 3
MaxInstallments == 2
MaxWideLoans == 1
MaxEscrows == 2
MaxUpdates == 3
MaxCreditDays == 2

\* ---------------------------------------------------------------- inputs
Addrs == {"a1", "a2"}
Contract == "contract"
Accounts == Addrs \cup {Contract}
Assets == {"tok"}
Lenders == {"a1"}
Borrowers == {"a2"}

Principals == {2}
Rates == {0, 5000}
Durations == {2}
Collaterals == {2}

TermsSet ==
  [principal : Principals, interest_rate : Rates, duration : Durations,
   collateral_amount : Collaterals, collateral_asset : Assets,
   installments : 0..MaxInstallments]

Amounts == 0..3
LoanIds == 0..(MaxLoans - 1)
Minted == [x \in Accounts |-> IF x = Contract THEN 0 ELSE 3]

VARIABLES loanCount, loans, balances, now, last, escrowCount, escrows, profiles
vars == <<loanCount, loans, balances, now, last, escrowCount, escrows, profiles>>
ledger == <<loanCount, loans, balances>>

\* The storage of each contract.
loanStore == <<loanCount, loans>>
escrowStore == <<escrowCount, escrows>>
creditStore == <<profiles>>

\* ------------------------------------------------------------ arithmetic
\* Rust's integer `/` truncates toward zero.
TruncDiv(a, b) == IF a >= 0 THEN a \div b ELSE -((-a) \div b)

TotalDue_NoInterest(principal, interest_rate) == principal

TotalDue(principal, interest_rate) ==
  principal + TruncDiv(principal * interest_rate, 10000)

PaymentAmount(terms) ==
  TruncDiv(TotalDue(terms.principal, terms.interest_rate), terms.installments)

PaymentInterval(terms) == terms.duration \div terms.installments

Schedule_ZeroBased(terms, current_time) ==
  [i \in 1..terms.installments |->
     [due_date |-> current_time + PaymentInterval(terms) * (i - 1),
      amount |-> PaymentAmount(terms),
      paid |-> FALSE]]

\* The first installment carries what the division left over.
Schedule_RemainderFirst(terms, current_time) ==
  [i \in 1..terms.installments |->
     [due_date |-> current_time + PaymentInterval(terms) * i,
      amount |-> PaymentAmount(terms)
                   + (IF i = 1
                        THEN TotalDue(terms.principal, terms.interest_rate)
                               - PaymentAmount(terms) * terms.installments
                        ELSE 0),
      paid |-> FALSE]]

Schedule(terms, current_time) ==
  [i \in 1..terms.installments |->
     [due_date |-> current_time + PaymentInterval(terms) * i,
      amount |-> PaymentAmount(terms),
      paid |-> FALSE]]

NewLoan(lender, borrower, terms, current_time) ==
  [lender |-> lender,
   borrower |-> borrower,
   principal |-> terms.principal,
   interest_rate |-> terms.interest_rate,
   duration |-> terms.duration,
   collateral_amount |-> terms.collateral_amount,
   collateral_asset |-> terms.collateral_asset,
   repayment_schedule |-> Schedule(terms, current_time),
   status |-> "Active",
   created_at |-> current_time,
   total_repaid |-> 0]

\* get_next_loan_id: the identifier handed out and the counter written back.
GetNextLoanId_NoIncrement(count) == [loan_id |-> count, count |-> count]

GetNextLoanId(count) == [loan_id |-> count, count |-> count + 1]

\* ------------------------------------------------------- token transfers
\* token::Client::transfer traps on a negative amount and on an
\* insufficient balance; otherwise it moves amt from `from` to `to`.
TransferOk(bal, asset, from, to, amt) ==
  amt >= 0 /\ bal[asset][from] >= amt

TransferApply(bal, asset, from, to, amt) ==
  [bal EXCEPT ![asset] = [[@ EXCEPT ![from] = @ - amt] EXCEPT ![to] = @ + amt]]

\* ------------------------------------------------------------- outcomes
\* What the last invocation was and how it ended: out is "ok" or the error
\* kind, ret the returned status, id the loan it named (for create_loan the
\* identifier returned, -1 when it failed), n the installments of create_loan,
\* pre the counter, the loan records and the balances the invocation started
\* from.
Result(op, id, who, authed, amount, n, out, ret) ==
  [op |-> op, id |-> id, who |-> who, authed |-> authed, amount |-> amount,
   n |-> n, out |-> out, ret |-> ret,
   pre |-> [loanCount |-> loanCount, loans |-> loans, balances |-> balances]]

\* A panic: the host rolls the invocation back.
Abort_CounterKept(res) ==
  /\ last' = res
  /\ loanCount' = IF res.op = "create_loan" /\ res.out = "TransferFailed"
                    THEN loanCount + 1 ELSE loanCount
  /\ UNCHANGED <<loans, balances, now>>

Abort(res) ==
  /\ last' = res
  /\ UNCHANGED <<loanCount, loans, balances, now>>

Init ==
  /\ loanCount = 0
  /\ loans = <<>>
  /\ balances = [a \in Assets |-> Minted]
  /\ now = 0
  /\ last = Result("init", -1, "none", FALSE, 0, 0, "ok", "None")
  /\ escrowCount = 0
  /\ escrows = <<>>
  /\ profiles = <<>>

\* ------------------------------------------------------------ operations
CreateLoan(lender, borrower, authed, terms) ==
  LET res(out, id) ==
        Result("create_loan", id, borrower, authed, 0, terms.installments, out, "None")
      next == GetNextLoanId(loanCount)
      asset == terms.collateral_asset
      bal1 == TransferApply(balances, asset, borrower, Contract, terms.collateral_amount)
      bal2 == TransferApply(bal1, asset, lender, borrower, terms.principal)
  IN
  /\ loanCount < MaxLoans
  /\ IF ~authed THEN Abort(res("Unauthorized", -1))
     ELSE IF terms.installments = 0 THEN Abort(res("ArithmeticFault", -1))
     ELSE IF ~TransferOk(balances, asset, borrower, Contract, terms.collateral_amount)
       THEN Abort(res("TransferFailed", -1))
     ELSE IF ~TransferOk(bal1, asset, lender, borrower, terms.principal)
       THEN Abort(res("TransferFailed", -1))
     ELSE
       /\ loanCount' = next.count
       /\ loans' = (next.loan_id :> NewLoan(lender, borrower, terms, now)) @@ loans
       /\ balances' = bal2
       /\ last' = res("ok", next.loan_id)
       /\ UNCHANGED now

\* The scan of make_repayment: the index of the first installment that is
\* unpaid and that the submitted amount covers, 0 if there is none.
MatchIndex_LastHit(schedule, amount) ==
  LET hits == {i \in 1..Len(schedule) : ~schedule[i].paid /\ amount >= schedule[i].amount}
  IN IF hits = {} THEN 0 ELSE CHOOSE i \in hits : \A j \in hits : i >= j

MatchIndex_IgnoresAmount(schedule, amount) ==
  LET hits == {i \in 1..Len(schedule) : ~schedule[i].paid}
  IN IF hits = {} THEN 0 ELSE CHOOSE i \in hits : \A j \in hits : i <= j

MatchIndex(schedule, amount) ==
  LET hits == {i \in 1..Len(schedule) : ~schedule[i].paid /\ amount >= schedule[i].amount}
  IN IF hits = {} THEN 0 ELSE CHOOSE i \in hits : \A j \in hits : i <= j

\* The guards of make_repayment.
RepaymentRefused_NoStatusCheck(loan, borrower) ==
  IF borrower # loan.borrower THEN "Unauthorized" ELSE "no"

RepaymentRefused_NoBorrowerCheck(loan, borrower) ==
  IF loan.status # "Active" THEN "LoanNotActive" ELSE "no"

RepaymentRefused(loan, borrower) ==
  IF loan.status # "Active" THEN "LoanNotActive"
  ELSE IF borrower # loan.borrower THEN "Unauthorized"
  ELSE "no"

\* The bookkeeping of make_repayment for the matched installment i.
MarkPaid_NoTotal(loan, i) == [loan EXCEPT !.repayment_schedule[i].paid = TRUE]

MarkPaid_DropsEntry(loan, i) ==
  [loan EXCEPT !.repayment_schedule =
                 [j \in 1..(Len(@) - 1) |-> IF j < i THEN @[j] ELSE @[j + 1]],
               !.total_repaid = @ + loan.repayment_schedule[i].amount]

MarkPaid(loan, i) ==
  [loan EXCEPT !.repayment_schedule[i].paid = TRUE,
               !.total_repaid = @ + loan.repayment_schedule[i].amount]

\* The payment transfer of make_repayment.
PayLender_RequiredOnly(bal, loan, borrower, amount) ==
  TransferApply(bal, loan.collateral_asset, borrower, loan.lender,
                loan.repayment_schedule[MatchIndex(loan.repayment_schedule, amount)].amount)

PayLender(bal, loan, borrower, amount) ==
  TransferApply(bal, loan.collateral_asset, borrower, loan.lender, amount)

\* The completion test of make_repayment.
FullyRepaid(loan) == loan.total_repaid >= TotalDue(loan.principal, loan.interest_rate)

MakeRepayment(loan_id, borrower, authed, amount) ==
  LET res(out, ret) ==
        Result("make_repayment", loan_id, borrower, authed, amount, 0, out, ret)
  IN
  IF ~authed THEN Abort(res("Unauthorized", "None"))
  ELSE IF loan_id \notin DOMAIN loans THEN Abort(res("LoanNotFound", "None"))
  ELSE
    LET loan == loans[loan_id]
        i == MatchIndex(loan.repayment_schedule, amount)
        loan1 == MarkPaid(loan, i)
        asset == loan.collateral_asset
        bal1 == PayLender(balances, loan, borrower, amount)
        complete == FullyRepaid(loan1)
        loan2 == IF complete THEN [loan1 EXCEPT !.status = "Repaid"] ELSE loan1
        bal2 == IF complete
                  THEN TransferApply(bal1, asset, Contract, loan.borrower, loan.collateral_amount)
                  ELSE bal1
    IN
    IF RepaymentRefused(loan, borrower) # "no"
      THEN Abort(res(RepaymentRefused(loan, borrower), "None"))
    ELSE IF i = 0 THEN Abort(res("InvalidRepayment", "None"))
    ELSE IF ~TransferOk(balances, asset, borrower, loan.lender, amount)
      THEN Abort(res("TransferFailed", "None"))
    ELSE IF complete /\ ~TransferOk(bal1, asset, Contract, loan.borrower, loan.collateral_amount)
      THEN Abort(res("TransferFailed", "None"))
    ELSE
      /\ loans' = [loans EXCEPT ![loan_id] = loan2]
      /\ balances' = bal2
      /\ last' = res("ok", loan2.status)
      /\ UNCHANGED <<loanCount, now>>

\* The default test of liquidate_collateral.
IsDefaulted_FirstOnly(schedule, current_time) ==
  Len(schedule) > 0 /\ ~schedule[1].paid /\ current_time > schedule[1].due_date

IsDefaulted_AtDueDate(schedule, current_time) ==
  \E i \in 1..Len(schedule) : ~schedule[i].paid /\ current_time >= schedule[i].due_date

IsDefaulted(schedule, current_time) ==
  \E i \in 1..Len(schedule) : ~schedule[i].paid /\ current_time > schedule[i].due_date

\* The guards of liquidate_collateral.
LiquidationRefused_StatusFirst(loan, lender, current_time) ==
  IF loan.status # "Active" THEN "LoanNotActive"
  ELSE IF loan.lender # lender THEN "Unauthorized"
  ELSE IF ~IsDefaulted(loan.repayment_schedule, current_time) THEN "NoDefault"
  ELSE "no"

LiquidationRefused(loan, lender, current_time) ==
  IF loan.lender # lender THEN "Unauthorized"
  ELSE IF loan.status # "Active" THEN "LoanNotActive"
  ELSE IF ~IsDefaulted(loan.repayment_schedule, current_time) THEN "NoDefault"
  ELSE "no"

\* The collateral transfer of liquidate_collateral.
SeizeCollateral_NoTransfer(bal, loan, lender) == bal

SeizeCollateral(bal, loan, lender) ==
  TransferApply(bal, loan.collateral_asset, Contract, lender, loan.collateral_amount)

LiquidateCollateral(loan_id, lender, authed) ==
  LET res(out, ret) ==
        Result("liquidate_collateral", loan_id, lender, authed, 0, 0, out, ret)
  IN
  IF ~authed THEN Abort(res("Unauthorized", "None"))
  ELSE IF loan_id \notin DOMAIN loans THEN Abort(res("LoanNotFound", "None"))
  ELSE
    LET loan == loans[loan_id]
    IN
    IF LiquidationRefused(loan, lender, now) # "no"
      THEN Abort(res(LiquidationRefused(loan, lender, now), "None"))
    ELSE IF ~TransferOk(balances, loan.collateral_asset, Contract, lender, loan.collateral_amount)
      THEN Abort(res("TransferFailed", "None"))
    ELSE
      /\ loans' = [loans EXCEPT ![loan_id].status = "Liquidated"]
      /\ balances' = SeizeCollateral(balances, loan, lender)
      /\ last' = res("ok", "Liquidated")
      /\ UNCHANGED <<loanCount, now>>

\* is_overdue: a read-only query.
IsOverdue_IgnoresStatus(loan, current_time) ==
  \E i \in 1..Len(loan.repayment_schedule) :
    ~loan.repayment_schedule[i].paid /\ current_time > loan.repayment_schedule[i].due_date

IsOverdue(loan, current_time) ==
  IF loan.status # "Active" THEN FALSE
  ELSE \E i \in 1..Len(loan.repayment_schedule) :
         ~loan.repayment_schedule[i].paid /\ current_time > loan.repayment_schedule[i].due_date

IsOverdueQuery(loan_id) ==
  LET res(out, ret) == Result("is_overdue", loan_id, "none", FALSE, 0, 0, out, ret)
  IN
  IF loan_id \notin DOMAIN loans THEN Abort(res("LoanNotFound", "None"))
  ELSE
    /\ last' = res("ok", IF IsOverdue(loans[loan_id], now) THEN "true" ELSE "false")
    /\ UNCHANGED <<loanCount, loans, balances, now>>

\* The ledger clock advances between invocations.
Tick ==
  /\ now < MaxTime
  /\ now' = now + 1
  /\ last' = Result("tick", -1, "none", FALSE, 0, 0, "ok", "None")
  /\ UNCHANGED <<loanCount, loans, balances>>

\* The loan contract leaves the storage of the other contracts alone.
Next ==
  \/ \E lender \in Lenders, borrower \in Borrowers, authed \in BOOLEAN, terms \in TermsSet :
       CreateLoan(lender, borrower, authed, terms) /\ UNCHANGED <<escrowStore, creditStore>>
  \/ \E loan_id \in LoanIds, borrower \in Addrs, authed \in BOOLEAN, amount \in Amounts :
       MakeRepayment(loan_id, borrower, authed, amount) /\ UNCHANGED <<escrowStore, creditStore>>
  \/ \E loan_id \in LoanIds, lender \in Addrs, authed \in BOOLEAN :
       LiquidateCollateral(loan_id, lender, authed) /\ UNCHANGED <<escrowStore, creditStore>>
  \/ \E loan_id \in LoanIds :
       IsOverdueQuery(loan_id) /\ UNCHANGED <<escrowStore, creditStore>>
  \/ Tick /\ UNCHANGED <<escrowStore, creditStore>>

Spec == Init /\ [][Next]_vars

\* ------------------------------------------- the loan contract, wide terms
\* One loan whose terms range over the terms of the contract's tests
\* (principal 100000, 5%, three installments, collateral 150000, lender
\* holding 1000000 and borrower 500000), over terms that are zero or
\* negative, and over a principal smaller than the number of installments.
WidePrincipals == {-1, 0, 2, 100000}
WideRates == {500}
WideDurations == {0, 3}
WideCollaterals == {-1, 0, 150000}
WideInstallments == {3}

WideTermsSet ==
  [principal : WidePrincipals, interest_rate : WideRates, duration : WideDurations,
   collateral_amount : WideCollaterals, collateral_asset : Assets,
   installments : WideInstallments]

WideAmounts == {-1, 0, 34999, 35000}
WideMinted == [x \in Accounts |-> IF x = "a1" THEN 1000000 ELSE IF x = "a2" THEN 500000 ELSE 0]

WideInit ==
  /\ loanCount = 0
  /\ loans = <<>>
  /\ balances = [a \in Assets |-> WideMinted]
  /\ now = 0
  /\ last = Result("init", -1, "none", FALSE, 0, 0, "ok", "None")
  /\ escrowCount = 0
  /\ escrows = <<>>
  /\ profiles = <<>>

WideNext ==
  \/ \E lender \in Lenders, borrower \in Borrowers, authed \in BOOLEAN, terms \in WideTermsSet :
       /\ loanCount < MaxWideLoans
       /\ CreateLoan(lender, borrower, authed, terms)
       /\ UNCHANGED <<escrowStore, creditStore>>
  \/ \E loan_id \in LoanIds, borrower \in Addrs, authed \in BOOLEAN, amount \in WideAmounts :
       MakeRepayment(loan_id, borrower, authed, amount) /\ UNCHANGED <<escrowStore, creditStore>>
  \/ \E loan_id \in LoanIds, lender \in Addrs, authed \in BOOLEAN :
       LiquidateCollateral(loan_id, lender, authed) /\ UNCHANGED <<escrowStore, creditStore>>
  \/ \E loan_id \in LoanIds :
       IsOverdueQuery(loan_id) /\ UNCHANGED <<escrowStore, creditStore>>
  \/ Tick /\ UNCHANGED <<escrowStore, creditStore>>

WideSpec == WideInit /\ [][WideNext]_vars

\* ------------------------------------------------------ the escrow contract
\* The panics of the escrow contract are named
\*   require_auth failure               -> Unauthorized
\*   "Escrow not found"                 -> EscrowNotFound
\*   "Only buyer can confirm delivery"  -> NotBuyer
\*   "Escrow is not in funded state"    -> NotFunded
\*   "Delivery not confirmed"           -> NotDelivered
\*   "Only buyer or seller can dispute" -> NotParty
\*   "Cannot dispute in current state"  -> CannotDispute
\*   "Cannot refund in current state"   -> CannotRefund
\*   a token transfer that traps        -> TransferFailed
Strangers == {"a3"}
Parties == Addrs \cup Strangers
Buyers == {"a1"}
Sellers == {"a2"}
EscrowAmounts == {-1, 1, 2}
Deadlines == {1}
EscrowIds == 0..(MaxEscrows - 1)

\* What the last invocation of the escrow contract was and how it ended; pre
\* is the counter, the escrow records and the balances it started from.
EscrowResult(op, id, who, authed, out, ret) ==
  [op |-> op, id |-> id, who |-> who, authed |-> authed, out |-> out, ret |-> ret,
   pre |-> [escrowCount |-> escrowCount, escrows |-> escrows, balances |-> balances]]

\* A panic: the host rolls the invocation back.
EscrowAbort(res) ==
  /\ last' = res
  /\ UNCHANGED <<escrowCount, escrows, balances, now>>

NewEscrow(buyer, seller, amount, asset, delivery_deadline, current_time) ==
  [buyer |-> buyer,
   seller |-> seller,
   amount |-> amount,
   asset |-> asset,
   delivery_deadline |-> delivery_deadline,
   status |-> "Funded",
   created_at |-> current_time]

GetNextEscrowId(count) == [escrow_id |-> count, count |-> count + 1]

EscrowInit ==
  /\ escrowCount = 0
  /\ escrows = <<>>
  /\ balances = [a \in Assets |-> Minted]
  /\ now = 0
  /\ last = EscrowResult("init", -1, "none", FALSE, "ok", "None")
  /\ loanCount = 0
  /\ loans = <<>>
  /\ profiles = <<>>

CreateEscrow(buyer, seller, authed, amount, asset, delivery_deadline) ==
  LET res(out, id) == EscrowResult("create_escrow", id, buyer, authed, out, "None")
      next == GetNextEscrowId(escrowCount)
  IN
  /\ escrowCount < MaxEscrows
  /\ IF ~authed THEN EscrowAbort(res("Unauthorized", -1))
     ELSE IF ~TransferOk(balances, asset, buyer, Contract, amount)
       THEN EscrowAbort(res("TransferFailed", -1))
     ELSE
       /\ escrowCount' = next.count
       /\ escrows' = (next.escrow_id :>
                        NewEscrow(buyer, seller, amount, asset, delivery_deadline, now)) @@ escrows
       /\ balances' = TransferApply(balances, asset, buyer, Contract, amount)
       /\ last' = res("ok", next.escrow_id)
       /\ UNCHANGED now

\* The guards of confirm_delivery.
ConfirmRefused(escrow, buyer) ==
  IF escrow.buyer # buyer THEN "NotBuyer"
  ELSE IF escrow.status # "Funded" THEN "NotFunded"
  ELSE "no"

ConfirmDelivery(escrow_id, buyer, authed) ==
  LET res(out, ret) == EscrowResult("confirm_delivery", escrow_id, buyer, authed, out, ret)
  IN
  IF ~authed THEN EscrowAbort(res("Unauthorized", "None"))
  ELSE IF escrow_id \notin DOMAIN escrows THEN EscrowAbort(res("EscrowNotFound", "None"))
  ELSE IF ConfirmRefused(escrows[escrow_id], buyer) # "no"
    THEN EscrowAbort(res(ConfirmRefused(escrows[escrow_id], buyer), "None"))
  ELSE
    /\ escrows' = [escrows EXCEPT ![escrow_id].status = "Delivered"]
    /\ last' = res("ok", "Delivered")
    /\ UNCHANGED <<escrowCount, balances, now>>

\* The guard of release_payment.
ReleaseRefused_FundedToo(escrow) ==
  IF escrow.status \notin {"Delivered", "Funded"} THEN "NotDelivered" ELSE "no"

ReleaseRefused(escrow) ==
  IF escrow.status # "Delivered" THEN "NotDelivered" ELSE "no"

ReleasePayment(escrow_id) ==
  LET res(out, ret) == EscrowResult("release_payment", escrow_id, "none", FALSE, out, ret)
  IN
  IF escrow_id \notin DOMAIN escrows THEN EscrowAbort(res("EscrowNotFound", "None"))
  ELSE
    LET escrow == escrows[escrow_id]
    IN
    IF ReleaseRefused(escrow) # "no" THEN EscrowAbort(res(ReleaseRefused(escrow), "None"))
    ELSE IF ~TransferOk(balances, escrow.asset, Contract, escrow.seller, escrow.amount)
      THEN EscrowAbort(res("TransferFailed", "None"))
    ELSE
      /\ balances' = TransferApply(balances, escrow.asset, Contract, escrow.seller, escrow.amount)
      /\ escrows' = [escrows EXCEPT ![escrow_id].status = "Completed"]
      /\ last' = res("ok", "Completed")
      /\ UNCHANGED <<escrowCount, now>>

\* The guards of dispute.
DisputeRefused(escrow, party) ==
  IF party # escrow.buyer /\ party # escrow.seller THEN "NotParty"
  ELSE IF escrow.status # "Funded" /\ escrow.status # "Delivered" THEN "CannotDispute"
  ELSE "no"

Dispute(escrow_id, party, authed) ==
  LET res(out, ret) == EscrowResult("dispute", escrow_id, party, authed, out, ret)
  IN
  IF ~authed THEN EscrowAbort(res("Unauthorized", "None"))
  ELSE IF escrow_id \notin DOMAIN escrows THEN EscrowAbort(res("EscrowNotFound", "None"))
  ELSE IF DisputeRefused(escrows[escrow_id], party) # "no"
    THEN EscrowAbort(res(DisputeRefused(escrows[escrow_id], party), "None"))
  ELSE
    /\ escrows' = [escrows EXCEPT ![escrow_id].status = "Disputed"]
    /\ last' = res("ok", "Disputed")
    /\ UNCHANGED <<escrowCount, balances, now>>

\* The refund test of refund.
CanRefund_AtDeadline(escrow, current_time) ==
  \/ escrow.status = "Disputed"
  \/ escrow.status = "Funded" /\ current_time >= escrow.delivery_deadline

CanRefund(escrow, current_time) ==
  \/ escrow.status = "Disputed"
  \/ escrow.status = "Funded" /\ current_time > escrow.delivery_deadline

Refund(escrow_id) ==
  LET res(out, ret) == EscrowResult("refund", escrow_id, "none", FALSE, out, ret)
  IN
  IF escrow_id \notin DOMAIN escrows THEN EscrowAbort(res("EscrowNotFound", "None"))
  ELSE
    LET escrow == escrows[escrow_id]
    IN
    IF ~CanRefund(escrow, now) THEN EscrowAbort(res("CannotRefund", "None"))
    ELSE IF ~TransferOk(balances, escrow.asset, Contract, escrow.buyer, escrow.amount)
      THEN EscrowAbort(res("TransferFailed", "None"))
    ELSE
      /\ balances' = TransferApply(balances, escrow.asset, Contract, escrow.buyer, escrow.amount)
      /\ escrows' = [escrows EXCEPT ![escrow_id].status = "Refunded"]
      /\ last' = res("ok", "Refunded")
      /\ UNCHANGED <<escrowCount, now>>

\* The ledger clock advances between invocations.
EscrowTick ==
  /\ now < MaxTime
  /\ now' = now + 1
  /\ last' = EscrowResult("tick", -1, "none", FALSE, "ok", "None")
  /\ UNCHANGED <<escrowCount, escrows, balances>>

\* The escrow contract leaves the storage of the other contracts alone.
EscrowNext ==
  \/ \E buyer \in Buyers, seller \in Sellers, authed \in BOOLEAN, amount \in EscrowAmounts,
        asset \in Assets, delivery_deadline \in Deadlines :
       CreateEscrow(buyer, seller, authed, amount, asset, delivery_deadline)
         /\ UNCHANGED <<loanStore, creditStore>>
  \/ \E escrow_id \in EscrowIds, buyer \in Addrs, authed \in BOOLEAN :
       ConfirmDelivery(escrow_id, buyer, authed) /\ UNCHANGED <<loanStore, creditStore>>
  \/ \E escrow_id \in EscrowIds :
       ReleasePayment(escrow_id) /\ UNCHANGED <<loanStore, creditStore>>
  \/ \E escrow_id \in EscrowIds, party \in Parties, authed \in BOOLEAN :
       Dispute(escrow_id, party, authed) /\ UNCHANGED <<loanStore, creditStore>>
  \/ \E escrow_id \in EscrowIds :
       Refund(escrow_id) /\ UNCHANGED <<loanStore, creditStore>>
  \/ EscrowTick /\ UNCHANGED <<loanStore, creditStore>>

EscrowSpec == EscrowInit /\ [][EscrowNext]_vars

\* ------------------------------------------------ the credit-scoring contract
\* The panics of the credit-scoring contract are named
\*   "Profile already exists for this agent" -> ProfileExists
\*   "Profile not found"                     -> ProfileNotFound
\* Scores are u32, counts and times u64, volumes and limits i128.  The
\* amounts explored keep total_volume / 10_000_000 and every product far
\* inside those widths, so the `as u32` casts and the arithmetic are exact;
\* the ledger time never decreases, so the u64 subtractions of update_score
\* never go below zero.
Agents == {"did:stellar:agent1"}
Outcomes == {"Success", "Default", "Partial"}
CreditAmounts == {-1000000, 1000000, 300000000}

DaySeconds == 86400
BaseLimit == 10000000
InitialScore == 500

Min(a, b) == IF a <= b THEN a ELSE b

\* calculate_score
SuccessRate(profile) ==
  IF profile.total_transactions > 0
    THEN (profile.successful_transactions * 1000) \div profile.total_transactions
    ELSE 500

PaymentHistoryScore(profile) == (SuccessRate(profile) * 350) \div 1000

DefaultPenalty(profile) == profile.defaults * 100

VolumeScore(profile) ==
  IF profile.total_volume > 0
    THEN Min(TruncDiv(profile.total_volume, 10000000) * 10, 300)
    ELSE 150

AccountAgeScore(profile) == Min(profile.account_age \div DaySeconds, 150)

TxCountScore(profile) == Min(profile.total_transactions * 2, 200)

ApplyPenalty_NoFloor(total_score, default_penalty) == total_score - default_penalty

ApplyPenalty(total_score, default_penalty) ==
  IF total_score > default_penalty THEN total_score - default_penalty ELSE 0

CalculateScore(profile) ==
  IF profile.total_transactions = 0 THEN 500
  ELSE
    LET total_score == PaymentHistoryScore(profile) + VolumeScore(profile)
                         + AccountAgeScore(profile) + TxCountScore(profile)
    IN Min(ApplyPenalty(total_score, DefaultPenalty(profile)), 1000)

\* calculate_limits
CalculateLimits(credit_score) ==
  LET multiplier == TruncDiv(credit_score * 1000, 500000)
  IN [max_buy_amount |-> TruncDiv(BaseLimit * multiplier, 1000),
      max_sell_amount |-> TruncDiv(BaseLimit * multiplier, 1000),
      max_loan_amount |-> TruncDiv(BaseLimit * multiplier * 50, 100000),
      max_borrow_amount |-> TruncDiv(BaseLimit * multiplier * 30, 100000),
      daily_transaction_limit |-> TruncDiv(BaseLimit * multiplier * 5, 1000)]

\* What the last invocation of the credit-scoring contract was and how it
\* ended; pre is the profiles it started from.
CreditResult(op, who, outcome, amount, out, ret) ==
  [op |-> op, who |-> who, outcome |-> outcome, amount |-> amount, out |-> out,
   ret |-> ret, pre |-> [profiles |-> profiles]]

\* A panic, or a query: the profiles stay as they were.
CreditReturn(res) ==
  /\ last' = res
  /\ UNCHANGED <<profiles, now>>

NewProfile(agent_did, current_time) ==
  [agent_did |-> agent_did,
   score |-> InitialScore,
   total_transactions |-> 0,
   successful_transactions |-> 0,
   defaults |-> 0,
   total_volume |-> 0,
   account_age |-> 0,
   last_updated |-> current_time]

CreditInit ==
  /\ profiles = <<>>
  /\ now = 0
  /\ last = CreditResult("init", "none", "None", 0, "ok", "None")
  /\ balances = [a \in Assets |-> Minted]
  /\ loanCount = 0
  /\ loans = <<>>
  /\ escrowCount = 0
  /\ escrows = <<>>

InitializeProfile(agent_did) ==
  LET res(out, ret) == CreditResult("initialize_profile", agent_did, "None", 0, out, ret)
      profile == NewProfile(agent_did, now)
  IN
  IF agent_did \in DOMAIN profiles THEN CreditReturn(res("ProfileExists", "None"))
  ELSE
    /\ profiles' = (agent_did :> profile) @@ profiles
    /\ last' = res("ok", profile)
    /\ UNCHANGED now

\* The account age update_score stores.
AccountAge(profile, current_time) ==
  IF profile.account_age = 0
    THEN current_time - profile.last_updated
    ELSE current_time - (profile.last_updated - profile.account_age)

\* The profile update_score stores.
Updated(profile, outcome, amount, current_time) ==
  LET counted ==
        [profile EXCEPT
           !.account_age = AccountAge(profile, current_time),
           !.total_transactions = @ + 1,
           !.total_volume = @ + amount,
           !.successful_transactions = IF outcome = "Success" THEN @ + 1 ELSE @,
           !.defaults = IF outcome = "Default" THEN @ + 1 ELSE @]
  IN [counted EXCEPT !.score = CalculateScore(counted), !.last_updated = current_time]

UpdateScore(agent_did, outcome, amount) ==
  LET res(out, ret) == CreditResult("update_score", agent_did, outcome, amount, out, ret)
  IN
  IF agent_did \notin DOMAIN profiles THEN CreditReturn(res("ProfileNotFound", "None"))
  ELSE
    LET profile == Updated(profiles[agent_did], outcome, amount, now)
    IN
    /\ profiles[agent_did].total_transactions < MaxUpdates
    /\ profiles' = [profiles EXCEPT ![agent_did] = profile]
    /\ last' = res("ok", profile.score)
    /\ UNCHANGED now

GetCreditScore(agent_did) ==
  LET res(out, ret) == CreditResult("get_credit_score", agent_did, "None", 0, out, ret)
  IN
  IF agent_did \notin DOMAIN profiles THEN CreditReturn(res("ProfileNotFound", "None"))
  ELSE CreditReturn(res("ok", profiles[agent_did].score))

GetTransactionLimits(agent_did) ==
  LET res(out, ret) == CreditResult("get_transaction_limits", agent_did, "None", 0, out, ret)
  IN
  IF agent_did \notin DOMAIN profiles THEN CreditReturn(res("ProfileNotFound", "None"))
  ELSE CreditReturn(res("ok", CalculateLimits(profiles[agent_did].score)))

\* The ledger clock advances between invocations, a day at a time.
CreditTick ==
  /\ now < MaxCreditDays * DaySeconds
  /\ now' = now + DaySeconds
  /\ last' = CreditResult("tick", "none", "None", 0, "ok", "None")
  /\ UNCHANGED profiles

\* The credit-scoring contract holds no funds and leaves the storage of the
\* other contracts alone.
CreditNext ==
  \/ \E agent_did \in Agents :
       InitializeProfile(agent_did) /\ UNCHANGED <<loanStore, escrowStore, balances>>
  \/ \E agent_did \in Agents, outcome \in Outcomes, amount \in CreditAmounts :
       UpdateScore(agent_did, outcome, amount) /\ UNCHANGED <<loanStore, escrowStore, balances>>
  \/ \E agent_did \in Agents :
       GetCreditScore(agent_did) /\ UNCHANGED <<loanStore, escrowStore, balances>>
  \/ \E agent_did \in Agents :
       GetTransactionLimits(agent_did) /\ UNCHANGED <<loanStore, escrowStore, balances>>
  \/ CreditTick /\ UNCHANGED <<loanStore, escrowStore, balances>>

CreditSpec == CreditInit /\ [][CreditNext]_vars

\* ================================================================ claims
\* The ledger before the last invocation, and whether it left it unchanged.
Pre == last.pre
Unchanged ==
  loanCount = Pre.loanCount /\ loans = Pre.loans /\ balances = Pre.balances

RECURSIVE SumCollateral(_)
SumCollateral(ids) ==
  IF ids = {} THEN 0
  ELSE LET id == CHOOSE x \in ids : TRUE
       IN loans[id].collateral_amount + SumCollateral(ids \ {id})

ActiveLoans(asset) ==
  {id \in DOMAIN loans : loans[id].status = "Active" /\ loans[id].collateral_asset = asset}

Custody(bal, asset) == bal[asset][Contract]

\* The balances after amt of asset has moved from one account to another.
Moved(bal, asset, from, to, amt) ==
  [bal EXCEPT ![asset] =
     [x \in Accounts |->
        bal[asset][x] - (IF x = from THEN amt ELSE 0) + (IF x = to THEN amt ELSE 0)]]

AllPaid(schedule) == \A i \in 1..Len(schedule) : schedule[i].paid

Succeeded(op) == last.op = op /\ last.out = "ok"

\* The last invocation was op on a loan that existed when it started.
Called(op) == last.op = op /\ last.id \in DOMAIN Pre.loans

Terminal(loan) == loan.status \in {"Repaid", "Liquidated"}

Overdue(loan, t) ==
  \E i \in 1..Len(loan.repayment_schedule) :
    ~loan.repayment_schedule[i].paid /\ loan.repayment_schedule[i].due_date < t

\* C1: the custody balance equals the sum of collateral_amount over the
\* Active loans, and it changes only in a successful create_loan (collateral
\* of the new loan enters), in the make_repayment that sets the loan Repaid
\* (its collateral leaves to the borrower) and in the liquidate_collateral
\* that sets the loan Liquidated (its collateral leaves to the lender).
C1_CustodyStep ==
  \A a \in Assets :
    Custody(balances, a) # Custody(Pre.balances, a) =>
      LET id == last.id IN
      \/ /\ Succeeded("create_loan")
         /\ id \notin DOMAIN Pre.loans
         /\ loans[id].status = "Active"
         /\ Custody(balances, a) = Custody(Pre.balances, a) + loans[id].collateral_amount
      \/ /\ Succeeded("make_repayment")
         /\ Pre.loans[id].status = "Active" /\ loans[id].status = "Repaid"
         /\ balances = Moved(Moved(Pre.balances, a, loans[id].borrower, loans[id].lender,
                                   last.amount),
                             a, Contract, loans[id].borrower, loans[id].collateral_amount)
      \/ /\ Succeeded("liquidate_collateral")
         /\ Pre.loans[id].status = "Active" /\ loans[id].status = "Liquidated"
         /\ balances = Moved(Pre.balances, a, Contract, loans[id].lender,
                             loans[id].collateral_amount)

C1_CollateralCustody ==
  /\ \A a \in Assets : Custody(balances, a) = SumCollateral(ActiveLoans(a))
  /\ C1_CustodyStep

C1_Witness ==
  /\ Succeeded("liquidate_collateral")
  /\ \E i \in DOMAIN loans : loans[i].status = "Active"
  /\ \E a \in Assets : Custody(balances, a) > 0

\* C2: a stored status changes only Active -> Repaid, in a make_repayment on
\* that loan, or Active -> Liquidated, in a liquidate_collateral on that loan;
\* a new loan is Active, loans are never removed, and no loan is Defaulted.
C2_StatusTransitions ==
  /\ \A id \in DOMAIN loans : loans[id].status \in {"Active", "Repaid", "Liquidated"}
  /\ \A id \in DOMAIN Pre.loans :
       /\ id \in DOMAIN loans
       /\ loans[id].status # Pre.loans[id].status =>
            /\ Pre.loans[id].status = "Active"
            /\ last.id = id
            /\ \/ loans[id].status = "Repaid" /\ Succeeded("make_repayment")
               \/ loans[id].status = "Liquidated" /\ Succeeded("liquidate_collateral")
  /\ \A id \in DOMAIN loans \ DOMAIN Pre.loans : loans[id].status = "Active"

C2_Witness ==
  /\ \E i \in DOMAIN loans : loans[i].status = "Repaid"
  /\ \E j \in DOMAIN loans : loans[j].status = "Liquidated"
  /\ last.op \in {"make_repayment", "liquidate_collateral"}
  /\ last.out = "LoanNotActive"

\* C3: a successful make_repayment that marks the last unpaid installment paid
\* returns Repaid, stores Repaid and moves collateral_amount from custody to
\* the borrower in that call; every other successful make_repayment returns
\* Active.
C3_FullRepaymentRepays ==
  Succeeded("make_repayment") =>
    LET id == last.id
        a == loans[id].collateral_asset
    IN IF AllPaid(loans[id].repayment_schedule)
         THEN /\ last.ret = "Repaid"
              /\ loans[id].status = "Repaid"
              /\ balances = Moved(Moved(Pre.balances, a, loans[id].borrower,
                                        loans[id].lender, last.amount),
                                  a, Contract, loans[id].borrower, loans[id].collateral_amount)
         ELSE last.ret = "Active"

\* C4: liquidate_collateral by the stored lender on an Active loan with an
\* unpaid installment whose due date is before the current time succeeds: the
\* loan becomes Liquidated, nothing else of it changes, and exactly
\* collateral_amount moves from custody to the lender.
C4_LiquidationSucceeds ==
  ( /\ Called("liquidate_collateral")
    /\ last.authed /\ last.who = Pre.loans[last.id].lender
    /\ Pre.loans[last.id].status = "Active"
    /\ Overdue(Pre.loans[last.id], now) )
  => /\ last.out = "ok" /\ last.ret = "Liquidated"
     /\ loans = [Pre.loans EXCEPT ![last.id].status = "Liquidated"]
     /\ balances = Moved(Pre.balances, Pre.loans[last.id].collateral_asset, Contract,
                         Pre.loans[last.id].lender, Pre.loans[last.id].collateral_amount)
     /\ loanCount = Pre.loanCount

C4_Witness ==
  /\ Succeeded("liquidate_collateral")
  /\ loans[last.id].status = "Liquidated"
  /\ \E i \in 1..Len(loans[last.id].repayment_schedule) :
       loans[last.id].repayment_schedule[i].paid

\* C5: liquidate_collateral by the stored lender on an Active loan none of
\* whose unpaid installments has a due date before the current time fails
\* with NoDefault and changes nothing.
C5_NoDefaultFails ==
  ( /\ Called("liquidate_collateral")
    /\ last.authed /\ last.who = Pre.loans[last.id].lender
    /\ Pre.loans[last.id].status = "Active"
    /\ ~Overdue(Pre.loans[last.id], now) )
  => last.out = "NoDefault" /\ Unchanged

C5_Witness ==
  /\ last.op = "liquidate_collateral" /\ last.out = "NoDefault"
  /\ LET sch == loans[last.id].repayment_schedule
     IN /\ \E i \in 1..Len(sch) : sch[i].paid /\ sch[i].due_date < now
        /\ \E j \in 1..Len(sch) : ~sch[j].paid /\ sch[j].due_date = now

\* C6 as stated: every make_repayment or liquidate_collateral on a Repaid or
\* Liquidated loan, whoever the authorized caller, fails with LoanNotActive and
\* changes nothing.
C6_TerminalCallsNotActive ==
  ( /\ (Called("make_repayment") \/ Called("liquidate_collateral"))
    /\ last.authed
    /\ Terminal(Pre.loans[last.id]) )
  => last.out = "LoanNotActive" /\ Unchanged

\* C6, amended: every make_repayment or liquidate_collateral on a Repaid or
\* Liquidated loan fails and changes nothing; the failure is LoanNotActive,
\* except that a call the named identity did not authorize, and a
\* liquidate_collateral naming an identity other than the stored lender, fail
\* with Unauthorized.
C6_TerminalCallsFail ==
  ( /\ (Called("make_repayment") \/ Called("liquidate_collateral"))
    /\ Terminal(Pre.loans[last.id]) )
  => /\ Unchanged
     /\ last.out =
          IF ~last.authed THEN "Unauthorized"
          ELSE IF last.op = "liquidate_collateral" /\ last.who # Pre.loans[last.id].lender
            THEN "Unauthorized"
          ELSE "LoanNotActive"

C6_Witness ==
  /\ Called("liquidate_collateral") /\ last.authed
  /\ Terminal(Pre.loans[last.id])
  /\ last.who # Pre.loans[last.id].lender
  /\ last.out = "Unauthorized"

\* C7: a create_loan, make_repayment or liquidate_collateral that fails leaves
\* the identifier counter, every loan record and every balance as they were.
C7_FailureChangesNothing ==
  ( /\ last.op \in {"create_loan", "make_repayment", "liquidate_collateral"}
    /\ last.out # "ok" )
  => Unchanged

C7_Witness ==
  /\ last.op = "create_loan" /\ last.out = "TransferFailed"
  /\ loanCount = 1

\* C8: on an Active loan, make_repayment naming an identity other than the
\* stored borrower, and liquidate_collateral naming an identity other than the
\* stored lender, fail with Unauthorized and change nothing.
C8_WrongIdentityUnauthorized ==
  ( /\ \/ Called("make_repayment") /\ last.who # Pre.loans[last.id].borrower
       \/ Called("liquidate_collateral") /\ last.who # Pre.loans[last.id].lender
    /\ Pre.loans[last.id].status = "Active" )
  => last.out = "Unauthorized" /\ Unchanged

C8_Witness ==
  /\ Called("make_repayment") /\ last.authed /\ last.out = "Unauthorized"
  /\ Pre.loans[last.id].status = "Active"
  /\ last.who # Pre.loans[last.id].borrower
  /\ last.amount >= Pre.loans[last.id].repayment_schedule[1].amount

\* C9: make_repayment by the borrower of an Active loan with an amount below
\* the required amount of every unpaid installment (or with no installment
\* unpaid) fails with InvalidRepayment and changes nothing.
C9_TooSmallRepaymentFails ==
  ( /\ Called("make_repayment")
    /\ last.authed /\ last.who = Pre.loans[last.id].borrower
    /\ Pre.loans[last.id].status = "Active"
    /\ \A i \in 1..Len(Pre.loans[last.id].repayment_schedule) :
         \/ Pre.loans[last.id].repayment_schedule[i].paid
         \/ last.amount < Pre.loans[last.id].repayment_schedule[i].amount )
  => last.out = "InvalidRepayment" /\ Unchanged

C9_Witness ==
  /\ last.op = "make_repayment" /\ last.out = "InvalidRepayment"
  /\ last.amount > 0
  /\ loans[last.id].status = "Active"
  /\ LET sch == loans[last.id].repayment_schedule
     IN \E j \in 1..Len(sch) : ~sch[j].paid /\ last.amount < sch[j].amount

\* C10: an authorized create_loan with installments = 0 fails with InvalidTerms
\* and changes nothing (no loan stored, no funds moved, counter unchanged).
C10_ZeroInstallmentsInvalidTerms ==
  (last.op = "create_loan" /\ last.authed /\ last.n = 0)
  => last.out = "InvalidTerms" /\ Unchanged

\* C12: the identifiers returned by successful create_loan calls are 0, 1, 2,
\* ... in order of creation: the counter starts at 0, a successful create_loan
\* returns the counter's value, adds one to it and stores the new loan under
\* an identifier that held no loan, leaving every other record as it was; no
\* other operation and no failed create_loan changes the counter; the stored
\* identifiers are exactly 0 .. counter - 1.
C12_SequentialIds ==
  /\ last.op = "init" => loanCount = 0
  /\ DOMAIN loans = 0..(loanCount - 1)
  /\ IF Succeeded("create_loan")
       THEN /\ last.id = Pre.loanCount
            /\ loanCount = Pre.loanCount + 1
            /\ last.id \notin DOMAIN Pre.loans
            /\ DOMAIN loans = DOMAIN Pre.loans \cup {last.id}
            /\ \A id \in DOMAIN Pre.loans : loans[id] = Pre.loans[id]
       ELSE loanCount = Pre.loanCount /\ DOMAIN loans = DOMAIN Pre.loans

C12_Witness ==
  /\ Succeeded("create_loan")
  /\ last.id = 1
  /\ loans[0].status = "Repaid"
  /\ loans[0] = Pre.loans[0]

\* C13: is_overdue returns true exactly when the loan is Active and some
\* unpaid installment has a due date strictly before the current time, so it
\* is false for every Repaid or Liquidated loan and at the due date itself; it
\* changes nothing; and on an Active loan liquidate_collateral by the lender
\* succeeds exactly when is_overdue is true.
C13_IsOverdue ==
  /\ \A id \in DOMAIN loans :
       /\ IsOverdue(loans[id], now) <=> (loans[id].status = "Active" /\ Overdue(loans[id], now))
       /\ Terminal(loans[id]) => ~IsOverdue(loans[id], now)
  /\ Succeeded("is_overdue") =>
       /\ Unchanged
       /\ last.ret = IF loans[last.id].status = "Active" /\ Overdue(loans[last.id], now)
                       THEN "true" ELSE "false"
  /\ ( /\ Called("liquidate_collateral")
       /\ last.authed /\ last.who = Pre.loans[last.id].lender
       /\ Pre.loans[last.id].status = "Active" )
     => (last.out = "ok" <=> IsOverdue(Pre.loans[last.id], now))

C13_Witness ==
  /\ Succeeded("is_overdue")
  /\ last.ret = "false"
  /\ Terminal(loans[last.id])
  /\ Overdue(loans[last.id], now)

\* C11: create_loan with principal <= 0, duration = 0 or collateral_amount <= 0
\* persists no loan record, so every stored loan has positive principal,
\* positive duration and positive collateral_amount.
C11_NonPositiveTermsRejected ==
  \A id \in DOMAIN loans :
    /\ loans[id].principal > 0
    /\ loans[id].duration > 0
    /\ loans[id].collateral_amount > 0

\* C14: a loan created with principal 100000, interest_rate 500 and three
\* installments has total_due 105000 and three installments of 35000 each; a
\* make_repayment of 35000 by its borrower succeeds while the loan is Active,
\* marks one more installment paid and returns Active after the first and the
\* second and Repaid after the third.
TestLoan(loan) ==
  /\ loan.principal = 100000
  /\ loan.interest_rate = 500
  /\ Len(loan.repayment_schedule) = 3

PaidCount(loan) ==
  Cardinality({i \in 1..Len(loan.repayment_schedule) : loan.repayment_schedule[i].paid})

C14_TestScenario ==
  /\ \A id \in DOMAIN loans : TestLoan(loans[id]) =>
       /\ TotalDue(loans[id].principal, loans[id].interest_rate) = 105000
       /\ \A i \in 1..3 : loans[id].repayment_schedule[i].amount = 35000
  /\ ( /\ Called("make_repayment")
       /\ TestLoan(Pre.loans[last.id])
       /\ last.authed /\ last.who = Pre.loans[last.id].borrower
       /\ Pre.loans[last.id].status = "Active"
       /\ last.amount = 35000 )
     => /\ last.out = "ok"
        /\ PaidCount(loans[last.id]) = PaidCount(Pre.loans[last.id]) + 1
        /\ last.ret = IF PaidCount(loans[last.id]) = 3 THEN "Repaid" ELSE "Active"
        /\ loans[last.id].status = last.ret

C14_Witness ==
  /\ Succeeded("make_repayment")
  /\ TestLoan(loans[last.id])
  /\ loans[last.id].collateral_amount = 150000
  /\ last.amount = 35000
  /\ last.ret = "Repaid"
  /\ loans[last.id].total_repaid = 105000

\* The escrow ledger before the last invocation, and whether it left it
\* unchanged.
EscrowUnchanged ==
  /\ escrowCount = last.pre.escrowCount
  /\ escrows = last.pre.escrows
  /\ balances = last.pre.balances

\* The last invocation was op on an escrow that existed when it started.
EscrowCalled(op) == last.op = op /\ last.id \in DOMAIN last.pre.escrows

\* C15: release_payment succeeds exactly on a Delivered escrow; it then moves
\* the escrowed amount from custody to the seller, sets the status Completed
\* and changes nothing else; in every other status it fails and changes
\* nothing.  An escrow becomes Delivered only in a confirm_delivery that its
\* buyer authorized while it was Funded.
C15_ReleaseAfterDelivery ==
  /\ EscrowCalled("release_payment") =>
       LET e == last.pre.escrows[last.id]
       IN IF e.status = "Delivered"
            THEN /\ last.out = "ok" /\ last.ret = "Completed"
                 /\ escrows = [last.pre.escrows EXCEPT ![last.id].status = "Completed"]
                 /\ balances = Moved(last.pre.balances, e.asset, Contract, e.seller, e.amount)
                 /\ escrowCount = last.pre.escrowCount
            ELSE last.out # "ok" /\ EscrowUnchanged
  /\ \A id \in DOMAIN escrows :
       ( /\ escrows[id].status = "Delivered"
         /\ id \in DOMAIN last.pre.escrows => last.pre.escrows[id].status # "Delivered" )
       => /\ last.op = "confirm_delivery" /\ last.out = "ok" /\ last.id = id
          /\ last.authed /\ last.who = escrows[id].buyer
          /\ id \in DOMAIN last.pre.escrows
          /\ last.pre.escrows[id].status = "Funded"
  /\ \A id \in DOMAIN escrows :
       ( /\ escrows[id].status = "Completed"
         /\ id \in DOMAIN last.pre.escrows => last.pre.escrows[id].status # "Completed" )
       => last.op = "release_payment" /\ last.out = "ok" /\ last.id = id

C15_Witness ==
  /\ last.op = "release_payment" /\ last.out = "ok"
  /\ escrows[last.id].status = "Completed"
  /\ escrows[last.id].amount > 0
  /\ \E id \in DOMAIN escrows : escrows[id].status = "Funded"

\* C16: refund succeeds exactly when the escrow is Disputed, or Funded with
\* the current time strictly after delivery_deadline; it then moves the
\* escrowed amount from custody to the buyer, sets the status Refunded and
\* changes nothing else; in every other case it fails and changes nothing.
C16_RefundRule ==
  EscrowCalled("refund") =>
    LET e == last.pre.escrows[last.id]
    IN IF e.status = "Disputed" \/ (e.status = "Funded" /\ now > e.delivery_deadline)
         THEN /\ last.out = "ok" /\ last.ret = "Refunded"
              /\ escrows = [last.pre.escrows EXCEPT ![last.id].status = "Refunded"]
              /\ balances = Moved(last.pre.balances, e.asset, Contract, e.buyer, e.amount)
              /\ escrowCount = last.pre.escrowCount
         ELSE last.out # "ok" /\ EscrowUnchanged

C16_Witness ==
  /\ last.op = "refund" /\ last.out = "ok"
  /\ last.pre.escrows[last.id].status = "Funded"
  /\ now = last.pre.escrows[last.id].delivery_deadline + 1
  /\ balances[escrows[last.id].asset][escrows[last.id].buyer] >
       last.pre.balances[escrows[last.id].asset][escrows[last.id].buyer]

\* The last invocation of the credit-scoring contract was op and it returned.
CreditSucceeded(op) == last.op = op /\ last.out = "ok"

\* C17: the stored score of every profile, and every value update_score and
\* get_credit_score return, lies in 0 .. 1000, the returned value being the
\* stored score; a freshly initialized profile has score 500.
C17_ScoreInRange ==
  /\ \A a \in DOMAIN profiles : profiles[a].score \in 0..1000
  /\ (CreditSucceeded("update_score") \/ CreditSucceeded("get_credit_score")) =>
       last.ret \in 0..1000 /\ last.ret = profiles[last.who].score
  /\ CreditSucceeded("initialize_profile") =>
       last.ret.score = 500 /\ profiles[last.who].score = 500

C17_Witness ==
  /\ CreditSucceeded("update_score")
  /\ last.outcome = "Default"
  /\ last.ret = 0
  /\ last.pre.profiles[last.who].score > 0
  /\ profiles[last.who].defaults = 2

\* C18: update_score with outcome Success never returns a score lower than
\* the profile's score before the call (so the first Success on a fresh
\* profile returns at least 500).
C18_SuccessNeverLowers ==
  (CreditSucceeded("update_score") /\ last.outcome = "Success")
  => last.ret >= last.pre.profiles[last.who].score

\* C19: update_score with outcome Default on a profile whose score is above 0
\* returns a score strictly lower than the score before the call.
C19_DefaultLowers ==
  ( /\ CreditSucceeded("update_score") /\ last.outcome = "Default"
    /\ last.pre.profiles[last.who].score > 0 )
  => last.ret < last.pre.profiles[last.who].score

\* C20: get_transaction_limits returns strictly positive max_buy_amount,
\* max_sell_amount, max_loan_amount, max_borrow_amount and
\* daily_transaction_limit for every stored profile.
C20_LimitsPositive ==
  CreditSucceeded("get_transaction_limits") =>
    /\ last.ret.max_buy_amount > 0
    /\ last.ret.max_sell_amount > 0
    /\ last.ret.max_loan_amount > 0
    /\ last.ret.max_borrow_amount > 0
    /\ last.ret.daily_transaction_limit > 0

\* C21: every Active loan has an unpaid installment (so a repayment or, once
\* it is overdue, a liquidation can still take the loan out of Active and its
\* collateral out of custody).
C21_ActiveHasUnpaid ==
  \A id \in DOMAIN loans :
    loans[id].status = "Active" => ~AllPaid(loans[id].repayment_schedule)

\* The installments of a schedule that are unpaid and that amount covers.
Covered(schedule, amount) ==
  {i \in 1..Len(schedule) : ~schedule[i].paid /\ schedule[i].amount <= amount}

\* The installments a step marked paid.
NewlyPaid(old, new) ==
  {i \in 1..Len(old.repayment_schedule) :
     /\ i <= Len(new.repayment_schedule)
     /\ ~old.repayment_schedule[i].paid
     /\ new.repayment_schedule[i].paid}

\* C22: a successful make_repayment marks paid exactly one installment, the
\* lowest-index unpaid one whose required amount the submitted amount covers,
\* and adds that installment's required amount to total_repaid; every other
\* installment, every other field of the loan except status, and every other
\* loan is unchanged.
C22_FirstCoveredInstallment ==
  Succeeded("make_repayment") =>
    LET old == Pre.loans[last.id]
        new == loans[last.id]
        hits == Covered(old.repayment_schedule, last.amount)
    IN /\ hits # {}
       /\ LET k == CHOOSE i \in hits : \A j \in hits : i <= j
          IN /\ new.repayment_schedule = [old.repayment_schedule EXCEPT ![k].paid = TRUE]
             /\ new.total_repaid = old.total_repaid + old.repayment_schedule[k].amount
             /\ new = [old EXCEPT !.repayment_schedule = new.repayment_schedule,
                                  !.total_repaid = new.total_repaid,
                                  !.status = new.status]
       /\ \A id \in DOMAIN loans \ {last.id} : loans[id] = Pre.loans[id]

C22_Witness ==
  /\ Succeeded("make_repayment")
  /\ NewlyPaid(Pre.loans[last.id], loans[last.id]) = {2}
  /\ last.amount > loans[last.id].repayment_schedule[2].amount
  /\ loans[last.id].total_repaid = 2 * loans[last.id].repayment_schedule[2].amount

RECURSIVE PaidSum(_)
PaidSum(schedule) ==
  IF schedule = <<>> THEN 0
  ELSE (IF Head(schedule).paid THEN Head(schedule).amount ELSE 0) + PaidSum(Tail(schedule))

\* C23: total_repaid of every loan equals the sum of amount over its paid
\* installments; it starts at 0, never decreases and changes only in a
\* successful make_repayment on that loan, by exactly the amount of the one
\* installment that call marked paid.
C23_TotalRepaidIsPaidSum ==
  /\ \A id \in DOMAIN loans : loans[id].total_repaid = PaidSum(loans[id].repayment_schedule)
  /\ \A id \in DOMAIN loans \ DOMAIN Pre.loans : loans[id].total_repaid = 0
  /\ \A id \in DOMAIN Pre.loans :
       /\ loans[id].total_repaid >= Pre.loans[id].total_repaid
       /\ loans[id].total_repaid # Pre.loans[id].total_repaid =>
            /\ Succeeded("make_repayment") /\ last.id = id
            /\ \E k \in 1..Len(loans[id].repayment_schedule) :
                 /\ NewlyPaid(Pre.loans[id], loans[id]) = {k}
                 /\ loans[id].total_repaid =
                      Pre.loans[id].total_repaid + Pre.loans[id].repayment_schedule[k].amount

C23_Witness ==
  /\ Succeeded("make_repayment")
  /\ Pre.loans[last.id].total_repaid > 0
  /\ loans[last.id].total_repaid > Pre.loans[last.id].total_repaid
  /\ last.amount > loans[last.id].total_repaid - Pre.loans[last.id].total_repaid

\* C24: a stored schedule keeps its length, which is the number of
\* installments create_loan was asked for, and the due_date and amount of
\* every entry; a paid flag never goes back to false, and the schedule changes
\* only in a successful make_repayment on that loan, which sets exactly one
\* paid flag.
C24_ScheduleFrame ==
  /\ Succeeded("create_loan") => Len(loans[last.id].repayment_schedule) = last.n
  /\ \A id \in DOMAIN Pre.loans :
       LET old == Pre.loans[id].repayment_schedule
           new == loans[id].repayment_schedule
       IN /\ Len(new) = Len(old)
          /\ \A i \in 1..Len(old) :
               /\ new[i].due_date = old[i].due_date
               /\ new[i].amount = old[i].amount
               /\ old[i].paid => new[i].paid
          /\ new # old =>
               /\ Succeeded("make_repayment") /\ last.id = id
               /\ Cardinality(NewlyPaid(Pre.loans[id], loans[id])) = 1

C24_Witness ==
  /\ Succeeded("liquidate_collateral")
  /\ loans[last.id].repayment_schedule = Pre.loans[last.id].repayment_schedule
  /\ Len(loans[last.id].repayment_schedule) = 2
  /\ loans[last.id].repayment_schedule[1].paid
  /\ ~loans[last.id].repayment_schedule[2].paid

\* C25: the schedule of a loan created with n > 0 installments has n entries,
\* all unpaid at creation; entry i (counted from 1) is due at
\* created_at + floor(duration / n) * i and requires
\* floor((principal + floor(principal * interest_rate / 10000)) / n); the due
\* dates strictly increase when floor(duration / n) > 0.
C25_ScheduleShape ==
  /\ Succeeded("create_loan") =>
       /\ last.n > 0
       /\ Len(loans[last.id].repayment_schedule) = last.n
       /\ loans[last.id].created_at = now
       /\ \A i \in 1..last.n : ~loans[last.id].repayment_schedule[i].paid
  /\ \A id \in DOMAIN loans :
       LET loan == loans[id]
           sch == loan.repayment_schedule
           n == Len(sch)
       IN /\ n > 0
          /\ \A i \in 1..n :
               /\ sch[i].due_date = loan.created_at + (loan.duration \div n) * i
               /\ sch[i].amount =
                    (loan.principal + ((loan.principal * loan.interest_rate) \div 10000)) \div n
          /\ (loan.duration \div n) > 0 =>
               \A i \in 1..(n - 1) : sch[i].due_date < sch[i + 1].due_date

C25_Witness ==
  /\ Succeeded("create_loan")
  /\ last.n = 2
  /\ loans[last.id].created_at > 0
  /\ LET loan == loans[last.id]
     IN 2 * loan.repayment_schedule[1].amount < TotalDue(loan.principal, loan.interest_rate)

\* C26: a successful make_repayment moves exactly the submitted amount from
\* the borrower to the lender (and, when it sets the loan Repaid, the
\* collateral from custody to the borrower, nothing else); what the amount
\* exceeds the matched installment by is not added to total_repaid and pays no
\* other installment.
C26_FullAmountMoves ==
  Succeeded("make_repayment") =>
    LET old == Pre.loans[last.id]
        new == loans[last.id]
        paid == NewlyPaid(old, new)
        back == IF new.status = "Repaid" THEN old.collateral_amount ELSE 0
    IN /\ balances = Moved(Moved(Pre.balances, old.collateral_asset, old.borrower,
                                  old.lender, last.amount),
                            old.collateral_asset, Contract, old.borrower, back)
       /\ Cardinality(paid) = 1
       /\ \A k \in paid :
            /\ old.repayment_schedule[k].amount <= last.amount
            /\ new.total_repaid = old.total_repaid + old.repayment_schedule[k].amount

C26_Witness ==
  /\ Succeeded("make_repayment")
  /\ last.ret = "Active"
  /\ \E k \in 1..Len(loans[last.id].repayment_schedule) :
       /\ ~loans[last.id].repayment_schedule[k].paid
       /\ last.amount >= 2 * loans[last.id].repayment_schedule[k].amount
       /\ loans[last.id].total_repaid = loans[last.id].repayment_schedule[k].amount
  /\ balances[loans[last.id].collateral_asset][loans[last.id].lender] =
       Pre.balances[loans[last.id].collateral_asset][loans[last.id].lender] + last.amount

\* C27: a make_repayment with amount <= 0 never succeeds: it fails and marks
\* no installment paid, leaves total_repaid and status as they were and moves
\* no funds.
C27_NonPositiveAmountFails ==
  (last.op = "make_repayment" /\ last.amount <= 0) => last.out # "ok" /\ Unchanged

\* C28: in every loan the paid installments form a prefix of the schedule and
\* the due dates do not decrease with the index, so the installment a
\* successful make_repayment marks paid is the earliest unpaid one, which is
\* also the first to become overdue.
C28_PaidPrefix ==
  /\ \A id \in DOMAIN loans :
       LET sch == loans[id].repayment_schedule
       IN \A i \in 1..Len(sch), j \in 1..Len(sch) :
            i < j => /\ sch[j].paid => sch[i].paid
                     /\ sch[i].due_date <= sch[j].due_date
  /\ Succeeded("make_repayment") =>
       NewlyPaid(Pre.loans[last.id], loans[last.id]) = {PaidCount(Pre.loans[last.id]) + 1}

C28_Witness ==
  /\ Succeeded("make_repayment")
  /\ last.amount = 1
  /\ Len(loans[last.id].repayment_schedule) = 2
  /\ loans[last.id].repayment_schedule[1].paid
  /\ ~loans[last.id].repayment_schedule[2].paid
  /\ TotalDue(loans[last.id].principal, loans[last.id].interest_rate) = 3

====
